---- MODULE Spec2Model ----
(***************************************************************************)
(* Model of pkg/update/update.go: the partitioned rolling update of a      *)
(* StatefulSet.  UpdateClusterRegionStatefulSet fetches the StatefulSet,   *)
(* applies updateFunc to the in-memory copy and hands it to                *)
(* PartitionedRollingUpdateStrategy, which walks the ordinals from         *)
(* replicas-1 down to 0.  Every collaborator call (store Get/Update,       *)
(* updateFunc, perPodVerificationFunc, waitUntilAllPodsReadyFunc,          *)
(* healthChecker.Probe) is one step whose outcome is chosen by the         *)
(* environment.  Time is counted in abstract ticks.                        *)
(***************************************************************************)
EXTENDS Integers, Naturals, Sequences, FiniteSets, TLC

\* ---------------------------------------------------------------- bounds
MaxReplicas == 3    \* *sts.Spec.Replicas ranges over 0..MaxReplicas
MaxTimeout == 2     \* podUpdateTimeout ranges over -1..MaxTimeout ticks
MaxTick == 2        \* ticks that pass between two polls: 1..MaxTick
MaxOtherUpdates == 2  \* Updates a strategy other than the partitioned sends

\* retry.DefaultRetry.Steps of k8s.io/client-go/util/retry, the number of
\* times retry.RetryOnConflict runs its closure (update.go line 194).
DefaultRetrySteps == 5

\* elapsed time saturates just above every timeout that can be configured
ElapsedCap == MaxTimeout + 1

Min(a, b) == IF a < b THEN a ELSE b

\* ---------------------------------------------------------------- errors
\* An error value: its classification and the context it has been wrapped
\* with ("identity" = resource name and namespace, "ordinal" = pod number).
NilErr == [kind |-> "nil", ctx |-> {}]
Err(k) == [kind |-> k, ctx |-> {}]

\* errors.Wrapf(err, ...): same cause, more context.
Wrapf(e, c) == [e EXCEPT !.ctx = @ \cup c]

\* Errors the store's Get can answer with, and those its Update can.
GetErrors == {"NotFound", "Status", "Other"}
UpdateErrors == {"Conflict", "NotFound", "Status", "Other"}

\* k8sErrors.IsConflict
IsConflict(e) == e.kind = "Conflict"

\* handleStsError: NotFound is wrapped with name and namespace; a
\* StatusError (a Conflict is one) and any other error are returned as is.
handleStsError(e) ==
    IF e.kind = "NotFound" THEN Wrapf(e, {"identity"}) ELSE e

VARIABLES
    pc,               \* position of the rollout
    replicas,         \* *sts.Spec.Replicas of the fetched StatefulSet
    podUpdateTimeout, \* updateTimer.podUpdateTimeout, in ticks
    store,            \* the StatefulSet held by the API server
    sts,              \* the strategy's in-memory StatefulSet (line 169)
    partition,        \* the loop counter (line 170)
    skipSleep,        \* line 168
    stepsLeft,        \* steps left to retry.RetryOnConflict
    conflicts,        \* Conflict answers to the Updates of this ordinal
    elapsed,          \* ticks since the poller's backoff was reset
    pollTurn,         \* parity of the poller's sleeps so far
    stratResult,      \* what the strategy returned
    result,           \* what UpdateClusterRegionStatefulSet returned
    \* what has been called so far in this execution
    transformCalled, strategyCalled,
    preLog,           \* ordinals of the pre-mutation checks, in order
    preOK,            \* ordinals whose pre-mutation check succeeded
    pollOK,           \* ordinals whose post-mutation poll succeeded
    waited,           \* ordinals with a readiness wait
    updIssued,        \* cutoffs of the Updates issued
    persisted,        \* cutoffs of the Updates the store accepted, in order
    polled,           \* ordinals polled after their Update
    refetched,        \* ordinals followed by the refresh Get
    probed,           \* ordinals followed by a health probe
    storeAtWait,      \* the store when the last readiness wait started
    failures,         \* the collaborator calls that returned a fatal error
    updLog,           \* cutoffs of the Update attempts, in order, a run
                      \* of attempts with one cutoff written once
    updCount,         \* number of Update attempts
    cancelled,        \* updateSts.ctx has been cancelled
    fetched           \* the sts of the retry closure (line 195)

ctl == <<pc, replicas, podUpdateTimeout, store, sts, partition, skipSleep,
         stepsLeft, conflicts, elapsed, pollTurn, stratResult, result>>
hist == <<transformCalled, strategyCalled, preLog, preOK, pollOK, waited,
          updIssued, persisted, polled, refetched, probed, storeAtWait,
          failures>>
vars == <<ctl, hist, updLog, updCount, cancelled, fetched>>

NoResult == [skip |-> FALSE, err |-> NilErr, set |-> FALSE]

\* No StatefulSet object: a variable not yet assigned or out of scope.
NoSts == [spec |-> "none", partition |-> 0]

Init ==
    /\ pc = "start"
    /\ replicas \in 0..MaxReplicas
    /\ podUpdateTimeout \in (-1)..MaxTimeout
    /\ store \in [spec : {"old", "new"}, partition : 0..replicas]
    /\ sts = NoSts
    /\ partition = 0
    /\ skipSleep = FALSE
    /\ stepsLeft = 0
    /\ conflicts = 0
    /\ elapsed = 0
    /\ pollTurn = 0
    /\ stratResult = NoResult
    /\ result = NoResult
    /\ transformCalled = FALSE
    /\ strategyCalled = FALSE
    /\ preLog = <<>>
    /\ preOK = {}
    /\ pollOK = {}
    /\ waited = {}
    /\ updIssued = {}
    /\ persisted = <<>>
    /\ polled = {}
    /\ refetched = {}
    /\ probed = {}
    /\ storeAtWait = store
    /\ failures = {}
    /\ updLog = <<>>
    /\ updCount = 0
    /\ cancelled = FALSE
    /\ fetched = NoSts

\* ------------------------------------------------------------- returning
\* UpdateClusterRegionStatefulSet lines 142-147: an error of the strategy is
\* wrapped with name and namespace and the hint is dropped.
TopResult(s, e) ==
    IF e.kind # "nil"
    THEN [skip |-> FALSE, err |-> Wrapf(e, {"identity"}), set |-> TRUE]
    ELSE [skip |-> s, err |-> NilErr, set |-> TRUE]

\* The strategy returns (s, e) and the top-level operation returns in turn.
StrategyReturns(s, e) ==
    /\ stratResult' = [skip |-> s, err |-> e, set |-> TRUE]
    /\ result' = TopResult(s, e)
    /\ pc' = "done"

\* The top-level operation returns (false, e) before the strategy ran.
TopReturns(e) ==
    /\ result' = [skip |-> FALSE, err |-> e, set |-> TRUE]
    /\ pc' = "done"
    /\ UNCHANGED stratResult

\* Collaborator call op, made for ordinal ord, returned an error of kind k.
Failed(op, ord, k) ==
    failures' = failures \cup {[op |-> op, ord |-> ord, kind |-> k]}

\* An Update with cutoff c is sent to the store.
Attempted(c) ==
    /\ updCount' = updCount + 1
    /\ updLog' = IF updLog # <<>> /\ updLog[Len(updLog)] = c
                 THEN updLog
                 ELSE Append(updLog, c)

\* ---------------------------------------------------------------- actions
\* Mutant of InitialGet: the error of the Get is not checked, and the
\* operation goes on to updateFunc.
InitialGetErrorIgnored ==
    /\ pc = "start"
    /\ \/ /\ sts' = store
          /\ pc' = "transform"
          /\ UNCHANGED <<result, stratResult, failures>>
       \/ \E k \in GetErrors :
             /\ Failed("get", -1, k)
             /\ pc' = "transform"
             /\ UNCHANGED <<sts, result, stratResult>>
    /\ UNCHANGED <<pollTurn, updLog, updCount, cancelled, fetched>>
    /\ UNCHANGED <<replicas, podUpdateTimeout, store, partition, skipSleep,
                   stepsLeft, conflicts, elapsed, transformCalled,
                   strategyCalled, preLog, preOK, pollOK, waited, updIssued,
                   persisted, polled, refetched, probed, storeAtWait>>

\* Line 113-116: the initial Get.
InitialGet ==
    /\ pc = "start"
    /\ \/ /\ sts' = store
          /\ pc' = "transform"
          /\ UNCHANGED <<result, stratResult, failures>>
       \/ \E k \in GetErrors :
             /\ TopReturns(handleStsError(Err(k)))
             /\ Failed("get", -1, k)
             /\ UNCHANGED sts
    /\ UNCHANGED <<pollTurn, updLog, updCount, cancelled, fetched>>
    /\ UNCHANGED <<replicas, podUpdateTimeout, store, partition, skipSleep,
                   stepsLeft, conflicts, elapsed, transformCalled,
                   strategyCalled, preLog, preOK, pollOK, waited, updIssued,
                   persisted, polled, refetched, probed, storeAtWait>>

\* Mutant of FirstPartition: the loop starts one ordinal too high.
FirstPartitionOffByOne(n) == n

\* for partition := *sts.Spec.Replicas - 1 (line 170)
FirstPartition(n) == n - 1

\* Lines 122-147 and 168-170: updateFunc, then the strategy is entered.
ApplyUpdateFunc ==
    /\ pc = "transform"
    /\ transformCalled' = TRUE
    /\ \/ /\ sts' = [sts EXCEPT !.spec = "new"]
          /\ strategyCalled' = TRUE
          /\ skipSleep' = FALSE
          /\ partition' = FirstPartition(replicas)
          /\ pc' = "loop"
          /\ UNCHANGED <<result, stratResult, failures>>
       \/ /\ TopReturns(Wrapf(Err("Transform"), {"identity"}))
          /\ Failed("updateFunc", -1, "Transform")
          /\ UNCHANGED <<sts, strategyCalled, skipSleep, partition>>
    /\ UNCHANGED <<pollTurn, updLog, updCount, cancelled, fetched>>
    /\ UNCHANGED <<replicas, podUpdateTimeout, store, stepsLeft, conflicts,
                   elapsed, preLog, preOK, pollOK, waited, updIssued,
                   persisted, polled, refetched, probed, storeAtWait>>

\* Line 170 and 234: the loop condition fails, return skipSleep, nil.
LoopExit ==
    /\ pc = "loop"
    /\ ~(partition >= 0)
    /\ StrategyReturns(skipSleep, NilErr)
    /\ UNCHANGED <<pollTurn, updLog, updCount, cancelled, fetched>>
    /\ UNCHANGED <<replicas, podUpdateTimeout, store, sts, partition,
                   skipSleep, stepsLeft, conflicts, elapsed, hist>>

\* Mutant of NextPartition: the loop counter is unsigned (16 bits wide
\* here) and wraps below 0.
NextPartitionUnsigned(p) == IF p = 0 THEN 65535 ELSE p - 1

\* partition-- (line 170)
NextPartition(p) == p - 1

\* Mutant of PreCheck: line 178 is missing, so skipping an ordinal leaves
\* skipSleep as it was.
PreCheckForgetsHint ==
    /\ pc = "loop"
    /\ partition >= 0
    /\ preLog' = Append(preLog, partition)
    /\ \/ /\ preOK' = preOK \cup {partition}
          /\ partition' = partition - 1
          /\ pc' = "loop"
          /\ UNCHANGED skipSleep
       \/ /\ skipSleep' = FALSE
          /\ pc' = "wait"
          /\ UNCHANGED <<preOK, partition>>
    /\ UNCHANGED <<pollTurn, updLog, updCount, cancelled, fetched>>
    /\ UNCHANGED <<replicas, podUpdateTimeout, store, sts, stepsLeft,
                   conflicts, elapsed, stratResult, result, transformCalled,
                   strategyCalled, pollOK, waited, updIssued, persisted,
                   polled, refetched, probed, storeAtWait, failures>>

\* Mutant of PreCheck: the continue of line 179 is missing, so an ordinal
\* that is already verified is updated all the same.
PreCheckNoContinue ==
    /\ pc = "loop"
    /\ partition >= 0
    /\ preLog' = Append(preLog, partition)
    /\ \/ /\ preOK' = preOK \cup {partition}
          /\ skipSleep' = TRUE
          /\ pc' = "wait"
          /\ UNCHANGED partition
       \/ /\ skipSleep' = FALSE
          /\ pc' = "wait"
          /\ UNCHANGED <<preOK, partition>>
    /\ UNCHANGED <<pollTurn, updLog, updCount, cancelled, fetched>>
    /\ UNCHANGED <<replicas, podUpdateTimeout, store, sts, stepsLeft,
                   conflicts, elapsed, stratResult, result, transformCalled,
                   strategyCalled, pollOK, waited, updIssued, persisted,
                   polled, refetched, probed, storeAtWait, failures>>

\* Lines 176-182: the pre-mutation check of perPodVerificationFunc.
PreCheck ==
    /\ pc = "loop"
    /\ partition >= 0
    /\ preLog' = Append(preLog, partition)
    /\ \/ /\ preOK' = preOK \cup {partition}
          /\ skipSleep' = TRUE
          /\ partition' = NextPartition(partition)
          /\ pc' = "loop"
       \/ /\ skipSleep' = FALSE
          /\ pc' = "wait"
          /\ UNCHANGED <<preOK, partition>>
    /\ UNCHANGED <<pollTurn, updLog, updCount, cancelled, fetched>>
    /\ UNCHANGED <<replicas, podUpdateTimeout, store, sts, stepsLeft,
                   conflicts, elapsed, stratResult, result, transformCalled,
                   strategyCalled, pollOK, waited, updIssued, persisted,
                   polled, refetched, probed, storeAtWait, failures>>

\* Mutant of WaitUntilAllPodsReady: lines 187-189 are missing, so the Update
\* carries whatever cutoff the in-memory StatefulSet had.
WaitForgetsPartition ==
    /\ pc = "wait"
    /\ waited' = waited \cup {partition}
    /\ storeAtWait' = store
    /\ \/ /\ sts' = sts
          /\ conflicts' = 0
          /\ pc' = "update"
          /\ UNCHANGED <<result, stratResult, failures>>
       \/ /\ StrategyReturns(FALSE, Wrapf(Err("Readiness"), {}))
          /\ Failed("wait", partition, "Readiness")
          /\ UNCHANGED <<sts, conflicts>>
    /\ UNCHANGED <<pollTurn, updLog, updCount, cancelled, fetched>>
    /\ UNCHANGED <<replicas, podUpdateTimeout, store, partition, skipSleep,
                   stepsLeft, elapsed, transformCalled, strategyCalled,
                   preLog, preOK, pollOK, updIssued, persisted, polled,
                   refetched, probed>>

\* Mutant of WaitUntilAllPodsReady: the error of the wait is not returned
\* and the Update follows.
WaitErrorIgnored ==
    /\ pc = "wait"
    /\ waited' = waited \cup {partition}
    /\ storeAtWait' = store
    /\ sts' = [sts EXCEPT !.partition = partition]
    /\ conflicts' = 0
    /\ pc' = "update"
    /\ \/ UNCHANGED failures
       \/ Failed("wait", partition, "Readiness")
    /\ UNCHANGED <<pollTurn, updLog, updCount, cancelled, fetched>>
    /\ UNCHANGED <<replicas, podUpdateTimeout, store, partition, skipSleep,
                   stepsLeft, elapsed, transformCalled, strategyCalled,
                   preLog, preOK, pollOK, updIssued, persisted, polled,
                   refetched, probed, result, stratResult>>

\* Lines 184-189: waitUntilAllPodsReadyFunc, then the partition is set on
\* the in-memory StatefulSet.
WaitUntilAllPodsReady ==
    /\ pc = "wait"
    /\ waited' = waited \cup {partition}
    /\ storeAtWait' = store
    /\ \/ /\ sts' = [sts EXCEPT !.partition = partition]
          /\ conflicts' = 0
          /\ pc' = "update"
          /\ UNCHANGED <<result, stratResult, failures>>
       \/ /\ StrategyReturns(FALSE, Wrapf(Err("Readiness"), {}))
          /\ Failed("wait", partition, "Readiness")
          /\ UNCHANGED <<sts, conflicts>>
    /\ UNCHANGED <<pollTurn, updLog, updCount, cancelled, fetched>>
    /\ UNCHANGED <<replicas, podUpdateTimeout, store, partition, skipSleep,
                   stepsLeft, elapsed, transformCalled, strategyCalled,
                   preLog, preOK, pollOK, updIssued, persisted, polled,
                   refetched, probed>>

\* Mutant of UpdateSts: line 192 asks only whether err != nil, so every
\* failure of the first Update is retried.
UpdateStsRetriesAnyError ==
    /\ pc = "update"
    /\ updIssued' = updIssued \cup {sts.partition}
    /\ Attempted(sts.partition)
    /\ \/ /\ store' = [spec |-> sts.spec, partition |-> sts.partition]
          /\ persisted' = Append(persisted, sts.partition)
          /\ elapsed' = 0
          /\ pc' = "poll"
          /\ UNCHANGED <<conflicts, stepsLeft, result, stratResult,
                         failures>>
       \/ \E k \in UpdateErrors :
             /\ IF IsConflict(Err(k))
                THEN /\ conflicts' = conflicts + 1
                     /\ stepsLeft' = DefaultRetrySteps
                     /\ pc' = "retry"
                     /\ UNCHANGED <<result, stratResult, failures>>
                ELSE /\ Failed("update", partition, k)
                     /\ stepsLeft' = DefaultRetrySteps
                     /\ pc' = "retry"
                     /\ UNCHANGED <<conflicts, result, stratResult>>
             /\ UNCHANGED <<store, persisted, elapsed>>
    /\ UNCHANGED <<pollTurn, cancelled, fetched>>
    /\ UNCHANGED <<replicas, podUpdateTimeout, sts, partition, skipSleep,
                   transformCalled, strategyCalled, preLog, preOK, pollOK,
                   waited, polled, refetched, probed, storeAtWait>>

\* Lines 191-192 and 211-213: the first Update of this ordinal.
UpdateSts ==
    /\ pc = "update"
    /\ updIssued' = updIssued \cup {sts.partition}
    /\ Attempted(sts.partition)
    /\ \/ /\ store' = [spec |-> sts.spec, partition |-> sts.partition]
          /\ persisted' = Append(persisted, sts.partition)
          /\ elapsed' = 0
          /\ pc' = "poll"
          /\ UNCHANGED <<conflicts, stepsLeft, result, stratResult,
                         failures>>
       \/ \E k \in UpdateErrors :
             /\ IF IsConflict(Err(k))
                THEN /\ conflicts' = conflicts + 1
                     /\ stepsLeft' = DefaultRetrySteps
                     /\ pc' = "retry"
                     /\ UNCHANGED <<result, stratResult, failures>>
                ELSE /\ StrategyReturns(FALSE, handleStsError(Err(k)))
                     /\ Failed("update", partition, k)
                     /\ UNCHANGED <<conflicts, stepsLeft>>
             /\ UNCHANGED <<store, persisted, elapsed>>
    /\ UNCHANGED <<pollTurn, cancelled, fetched>>
    /\ UNCHANGED <<replicas, podUpdateTimeout, sts, partition, skipSleep,
                   transformCalled, strategyCalled, preLog, preOK, pollOK,
                   waited, polled, refetched, probed, storeAtWait>>

\* Mutant of RetryGoesOn: the retry gives up one step early.
RetryGivesUpEarly(steps) == steps > 2

\* wait.ExponentialBackoff under retry.OnError: after a retriable failure
\* the loop goes on while more than one step is left.
RetryGoesOn(steps) == steps > 1

\* Mutant of RetryGet: lines 199-201 are missing, so the copy the closure
\* sends back carries the cutoff the store already has.
RetryKeepsStoredPartition ==
    /\ pc = "retry"
    /\ stepsLeft > 0
    /\ \/ \E k \in GetErrors :
             /\ StrategyReturns(FALSE, handleStsError(Err(k)))
             /\ Failed("retryGet", partition, k)
             /\ UNCHANGED fetched
       \/ /\ fetched' = store
          /\ pc' = "retryUpdate"
          /\ UNCHANGED <<result, stratResult, failures>>
    /\ UNCHANGED <<pollTurn, updLog, updCount, cancelled>>
    /\ UNCHANGED <<replicas, podUpdateTimeout, store, sts, partition,
                   skipSleep, stepsLeft, conflicts, elapsed,
                   transformCalled, strategyCalled, preLog, preOK, pollOK,
                   waited, updIssued, persisted, polled, refetched, probed,
                   storeAtWait>>

\* Lines 194-201: a run of the closure of retry.RetryOnConflict begins with
\* a Get of the stored StatefulSet into the closure's own sts, which
\* shadows the strategy's, and sets the partition on that copy.  An error
\* of the Get is not a Conflict and ends the retry (lines 196-198, 209).
RetryGet ==
    /\ pc = "retry"
    /\ stepsLeft > 0
    /\ \/ \E k \in GetErrors :
             /\ StrategyReturns(FALSE, handleStsError(Err(k)))
             /\ Failed("retryGet", partition, k)
             /\ UNCHANGED fetched
       \/ /\ fetched' = [store EXCEPT !.partition = partition]
          /\ pc' = "retryUpdate"
          /\ UNCHANGED <<result, stratResult, failures>>
    /\ UNCHANGED <<pollTurn, updLog, updCount, cancelled>>
    /\ UNCHANGED <<replicas, podUpdateTimeout, store, sts, partition,
                   skipSleep, stepsLeft, conflicts, elapsed,
                   transformCalled, strategyCalled, preLog, preOK, pollOK,
                   waited, updIssued, persisted, polled, refetched, probed,
                   storeAtWait>>

\* Lines 203-210: the closure's Update of the copy it fetched.  A Conflict
\* is retried, after the library's sleep, while steps are left; any other
\* error, and the last Conflict, is returned by line 209.
RetryUpdate ==
    /\ pc = "retryUpdate"
    /\ updIssued' = updIssued \cup {fetched.partition}
    /\ Attempted(fetched.partition)
    /\ \/ /\ store' = fetched
          /\ persisted' = Append(persisted, fetched.partition)
          /\ elapsed' = 0
          /\ pc' = "poll"
          /\ UNCHANGED <<conflicts, stepsLeft, result, stratResult,
                         failures>>
       \/ \E k \in UpdateErrors :
             /\ IF IsConflict(Err(k))
                THEN /\ conflicts' = conflicts + 1
                     /\ IF RetryGoesOn(stepsLeft)
                        THEN /\ stepsLeft' = stepsLeft - 1
                             /\ pc' = "retry"
                             /\ UNCHANGED <<result, stratResult, failures>>
                        ELSE /\ StrategyReturns(FALSE,
                                                handleStsError(Err(k)))
                             /\ Failed("retryUpdate", partition, k)
                             /\ UNCHANGED stepsLeft
                ELSE /\ StrategyReturns(FALSE, handleStsError(Err(k)))
                     /\ Failed("retryUpdate", partition, k)
                     /\ UNCHANGED <<conflicts, stepsLeft>>
             /\ UNCHANGED <<store, persisted, elapsed>>
    /\ fetched' = NoSts
    /\ UNCHANGED <<pollTurn, cancelled>>
    /\ UNCHANGED <<replicas, podUpdateTimeout, sts, partition, skipSleep,
                   transformCalled, strategyCalled, preLog, preOK, pollOK,
                   waited, polled, refetched, probed, storeAtWait>>

\* Mutant of NextBackOffStops: the poller stops one tick late.
NextBackOffStopsLate(e, t) == t # 0 /\ e > t + 1

\* ExponentialBackOff.NextBackOff of github.com/cenkalti/backoff, as set up
\* on lines 249-251: Stop once the elapsed time is over MaxElapsedTime; a
\* MaxElapsedTime of 0 never stops.
NextBackOffStops(e, t) == t # 0 /\ e > t

\* Mutant of VerifyPoll: the error of the poller (line 219) is dropped, so
\* the rollout goes on after a verification that never succeeded.
VerifyPollErrorDropped ==
    /\ pc = "poll"
    /\ polled' = polled \cup {partition}
    /\ \/ /\ pollOK' = pollOK \cup {partition}
          /\ pc' = "refresh"
          /\ pollTurn' = 0
          /\ UNCHANGED elapsed
       \/ /\ NextBackOffStops(elapsed, podUpdateTimeout)
          /\ pc' = "refresh"
          /\ pollTurn' = 0
          /\ UNCHANGED <<elapsed, pollOK>>
       \/ /\ ~NextBackOffStops(elapsed, podUpdateTimeout)
          /\ \E d \in 1..MaxTick : elapsed' = Min(elapsed + d, ElapsedCap)
          /\ pollTurn' = 1 - pollTurn
          /\ UNCHANGED <<pc, pollOK>>
    /\ UNCHANGED <<updLog, updCount, cancelled, fetched>>
    /\ UNCHANGED <<replicas, podUpdateTimeout, store, sts, partition,
                   skipSleep, stepsLeft, conflicts, elapsed, transformCalled,
                   strategyCalled, preLog, preOK, waited, updIssued,
                   persisted, refetched, probed, storeAtWait, result,
                   stratResult, failures>>

\* Lines 219-221 and 238-253: one call of perPodVerificationFunc by
\* backoff.Retry.  A failure either ends the retry with that error or is
\* followed by a sleep, after which at least one tick has passed.
VerifyPoll ==
    /\ pc = "poll"
    /\ polled' = polled \cup {partition}
    /\ \/ /\ pollOK' = pollOK \cup {partition}
          /\ pc' = "refresh"
          /\ pollTurn' = 0
          /\ UNCHANGED <<elapsed, result, stratResult, failures>>
       \/ /\ NextBackOffStops(elapsed, podUpdateTimeout)
          /\ StrategyReturns(FALSE, Wrapf(Err("Verification"), {"ordinal"}))
          /\ Failed("poll", partition, "Verification")
          /\ pollTurn' = 0
          /\ UNCHANGED <<elapsed, pollOK>>
       \/ /\ ~NextBackOffStops(elapsed, podUpdateTimeout)
          /\ \E d \in 1..MaxTick : elapsed' = Min(elapsed + d, ElapsedCap)
          /\ pollTurn' = 1 - pollTurn
          /\ UNCHANGED <<pc, pollOK, result, stratResult, failures>>
    /\ UNCHANGED <<updLog, updCount, cancelled, fetched>>
    /\ UNCHANGED <<replicas, podUpdateTimeout, store, sts, partition,
                   skipSleep, stepsLeft, conflicts, transformCalled,
                   strategyCalled, preLog, preOK, waited, updIssued,
                   persisted, refetched, probed, storeAtWait>>

\* Lines 226-229: the in-memory StatefulSet is refreshed from the store.
RefreshSts ==
    /\ pc = "refresh"
    /\ refetched' = refetched \cup {partition}
    /\ \/ /\ sts' = store
          /\ pc' = "probe"
          /\ UNCHANGED <<result, stratResult, failures>>
       \/ \E k \in GetErrors :
             /\ StrategyReturns(FALSE, handleStsError(Err(k)))
             /\ Failed("refresh", partition, k)
             /\ UNCHANGED sts
    /\ UNCHANGED <<pollTurn, updLog, updCount, cancelled, fetched>>
    /\ UNCHANGED <<replicas, podUpdateTimeout, store, partition, skipSleep,
                   stepsLeft, conflicts, elapsed, transformCalled,
                   strategyCalled, preLog, preOK, pollOK, waited, updIssued,
                   persisted, polled, probed, storeAtWait>>

\* Mutant of HealthProbe: the error of the probe is not returned and the
\* loop goes on to the next ordinal.
HealthProbeErrorIgnored ==
    /\ pc = "probe"
    /\ probed' = probed \cup {partition}
    /\ partition' = partition - 1
    /\ pc' = "loop"
    /\ \/ UNCHANGED failures
       \/ Failed("probe", partition, "Probe")
    /\ UNCHANGED <<pollTurn, updLog, updCount, cancelled, fetched>>
    /\ UNCHANGED <<replicas, podUpdateTimeout, store, sts, skipSleep,
                   stepsLeft, conflicts, elapsed, transformCalled,
                   strategyCalled, preLog, preOK, pollOK, waited, updIssued,
                   persisted, polled, refetched, storeAtWait, result,
                   stratResult>>

\* Lines 230-233 and the partition-- of line 170.
HealthProbe ==
    /\ pc = "probe"
    /\ probed' = probed \cup {partition}
    /\ \/ /\ partition' = NextPartition(partition)
          /\ pc' = "loop"
          /\ UNCHANGED <<result, stratResult, failures>>
       \/ /\ StrategyReturns(skipSleep, Err("Probe"))
          /\ Failed("probe", partition, "Probe")
          /\ UNCHANGED partition
    /\ UNCHANGED <<pollTurn, updLog, updCount, cancelled, fetched>>
    /\ UNCHANGED <<replicas, podUpdateTimeout, store, sts, skipSleep,
                   stepsLeft, conflicts, elapsed, transformCalled,
                   strategyCalled, preLog, preOK, pollOK, waited, updIssued,
                   persisted, polled, refetched, storeAtWait>>

\* The suite may hold another updateStrategyFunc than the partitioned
\* rolling update: the type of lines 56-59 admits any function of an
\* UpdateSts and an UpdateTimer that returns (bool, error).  Such a
\* strategy is a sequence of calls of the collaborators it is handed, the
\* store (updateSts.clientset), waitUntilAllPodsReadyFunc and
\* healthChecker, in any order, and then a return.

\* Lines 122-142: updateFunc succeeds and the other strategy is entered.
OtherStrategyEntered ==
    /\ pc = "transform"
    /\ transformCalled' = TRUE
    /\ strategyCalled' = TRUE
    /\ sts' = [sts EXCEPT !.spec = "new"]
    /\ pc' = "other"
    /\ UNCHANGED <<pollTurn, updLog, updCount, cancelled, fetched>>
    /\ UNCHANGED <<replicas, podUpdateTimeout, store, partition, skipSleep,
                   stepsLeft, conflicts, elapsed, stratResult, result,
                   preLog, preOK, pollOK, waited, updIssued, persisted,
                   polled, refetched, probed, storeAtWait, failures>>

\* Inside the other strategy: a store Update of updateSts.sts with some
\* partition cutoff c, which the store accepts or answers with an error.
\* Whether an error of a call made in here is fatal is the strategy's own
\* choice: failures records the error it returns with, if any.
OtherStrategyUpdate ==
    /\ pc = "other"
    /\ updCount < MaxOtherUpdates
    /\ \E c \in 0..replicas :
          /\ updIssued' = updIssued \cup {c}
          /\ Attempted(c)
          /\ \/ /\ store' = [spec |-> sts.spec, partition |-> c]
                /\ persisted' = Append(persisted, c)
             \/ UNCHANGED <<store, persisted>>
    /\ UNCHANGED failures
    /\ UNCHANGED <<pollTurn, cancelled, fetched>>
    /\ UNCHANGED <<pc, replicas, podUpdateTimeout, sts, partition,
                   skipSleep, stepsLeft, conflicts, elapsed, stratResult,
                   result, transformCalled, strategyCalled, preLog, preOK,
                   pollOK, waited, polled, refetched, probed, storeAtWait>>

\* Inside the other strategy: a call of waitUntilAllPodsReadyFunc, which
\* is not given an ordinal (-1).
OtherStrategyWait ==
    /\ pc = "other"
    /\ waited' = waited \cup {-1}
    /\ storeAtWait' = store
    /\ UNCHANGED failures
    /\ UNCHANGED <<pollTurn, updLog, updCount, cancelled, fetched>>
    /\ UNCHANGED <<pc, replicas, podUpdateTimeout, store, sts, partition,
                   skipSleep, stepsLeft, conflicts, elapsed, stratResult,
                   result, transformCalled, strategyCalled, preLog, preOK,
                   pollOK, updIssued, persisted, polled, refetched, probed>>

\* Inside the other strategy: a call of healthChecker.Probe for some
\* ordinal.
OtherStrategyProbe ==
    /\ pc = "other"
    /\ \E c \in 0..(replicas - 1) :
          probed' = probed \cup {c}
    /\ UNCHANGED failures
    /\ UNCHANGED <<pollTurn, updLog, updCount, cancelled, fetched>>
    /\ UNCHANGED <<pc, replicas, podUpdateTimeout, store, sts, partition,
                   skipSleep, stepsLeft, conflicts, elapsed, stratResult,
                   result, transformCalled, strategyCalled, preLog, preOK,
                   pollOK, waited, updIssued, persisted, polled, refetched,
                   storeAtWait>>

\* Lines 142-147: the other strategy returns some hint s, with an error or
\* with nil, and the top-level operation returns in turn.
OtherStrategyReturns ==
    /\ pc = "other"
    /\ \E s \in BOOLEAN :
          \/ /\ StrategyReturns(s, NilErr)
             /\ UNCHANGED failures
          \/ /\ StrategyReturns(s, Err("Strategy"))
             /\ Failed("strategy", -1, "Strategy")
    /\ UNCHANGED <<pollTurn, updLog, updCount, cancelled, fetched>>
    /\ UNCHANGED <<replicas, podUpdateTimeout, store, sts, partition,
                   skipSleep, stepsLeft, conflicts, elapsed,
                   transformCalled, strategyCalled, preLog, preOK, pollOK,
                   waited, updIssued, persisted, polled, refetched, probed,
                   storeAtWait>>

\* updateSts.ctx (line 65) is cancelled by the caller, at any moment before
\* the operation returns.  Only a callee that is handed the context can see
\* it: backoff.Retry on line 252 is not.
Cancel ==
    /\ pc # "done"
    /\ ~cancelled
    /\ cancelled' = TRUE
    /\ UNCHANGED <<ctl, hist, updLog, updCount, fetched>>

Next ==
    \/ InitialGet
    \/ ApplyUpdateFunc
    \/ LoopExit
    \/ PreCheck
    \/ WaitUntilAllPodsReady
    \/ UpdateSts
    \/ RetryGet
    \/ RetryUpdate
    \/ VerifyPoll
    \/ RefreshSts
    \/ HealthProbe

Spec == Init /\ [][Next]_vars

\* The rollout is one sequential call: as long as every collaborator call
\* returns, it takes its next step.
FairSpec == Spec /\ WF_vars(Next)

\* The rollout with a caller that may cancel the context.
NextOrCancel ==
    \/ Next
    \/ Cancel

CancelSpec == Init /\ [][NextOrCancel]_vars

\* The top-level operation with any update suite: the partitioned rolling
\* update or another strategy function.
NextAnySuite ==
    \/ Next
    \/ OtherStrategyEntered
    \/ OtherStrategyUpdate
    \/ OtherStrategyWait
    \/ OtherStrategyProbe
    \/ OtherStrategyReturns

AnySuiteSpec == Init /\ [][NextAnySuite]_vars

\* ----------------------------------------------------------------- claims
Ordinals == 0..(replicas - 1)
Last(q) == q[Len(q)]
Range(q) == {q[i] : i \in 1..Len(q)}
Succeeded == result.set /\ result.err.kind = "nil"

\* C1: a store Update that carries partition cutoff p is issued only after
\* the verification predicate has returned success, at the pre-mutation
\* check or in the post-mutation poll, for every ordinal q with
\* p < q <= N-1.  Both the Updates already issued and the one about to be
\* issued are covered.
C1_UpdateOnlyAfterHigherVerified ==
    /\ \A p \in updIssued :
          \A q \in (p + 1)..(replicas - 1) : q \in preOK \cup pollOK
    /\ pc \in {"update", "retry", "retryUpdate"} =>
          \A q \in (partition + 1)..(replicas - 1) : q \in preOK \cup pollOK

\* An Update for ordinal 0 of three, after ordinal 2 was verified by the
\* poll and ordinal 1 by the pre-mutation check.
C1_Witness ==
    /\ replicas = 3
    /\ 0 \in updIssued
    /\ 2 \in pollOK
    /\ 1 \in preOK

\* C2: for every N >= 0 the pre-mutation checks happen for the ordinals
\* N-1, N-2, ..., 0 in that order, each at most once, none skipped: the
\* i-th check is that of ordinal N-i, the loop counter is the next ordinal
\* to check, and a rollout that returns without error has checked all N.
C2_VisitsDescending ==
    /\ \A i \in 1..Len(preLog) : preLog[i] = replicas - i
    /\ pc = "loop" => partition = replicas - 1 - Len(preLog)
    /\ pc \in {"wait", "update", "retry", "retryUpdate", "poll", "refresh",
             "probe"} =>
          /\ Len(preLog) > 0
          /\ partition = Last(preLog)
    /\ strategyCalled /\ Succeeded => Len(preLog) = replicas

\* A rollout over three replicas that returned after checking 2, 1, 0.
C2_Witness ==
    /\ pc = "done"
    /\ preLog = <<2, 1, 0>>

\* C3: when the pre-mutation check of ordinal k succeeds, there is no
\* readiness wait, no Update, no poll, no refresh and no health probe for
\* k; skipSleep is true and the loop is at k-1 right after it; and k-1,
\* when its own check fails and the rollout gets past it, has had its wait,
\* its Update, its successful poll, its refresh and its probe.
C3_AlreadyVerifiedIsSkipped ==
    /\ \A k \in preOK :
          /\ k \notin waited \cup updIssued \cup polled \cup refetched \cup probed
          /\ (k - 1 >= 0 /\ partition < k - 1 /\ k - 1 \notin preOK) =>
                /\ k - 1 \in waited \cap updIssued \cap pollOK
                /\ k - 1 \in refetched \cap probed
                /\ k - 1 \in Range(persisted)
    /\ (pc = "loop" /\ Len(preLog) > 0 /\ Last(preLog) \in preOK) =>
          /\ skipSleep = TRUE
          /\ partition = Last(preLog) - 1

\* Scenario B: ordinal 2 of three already verified, ordinal 1 processed.
C3_Witness ==
    /\ replicas = 3
    /\ 2 \in preOK
    /\ 1 \in probed
    /\ pc = "loop"
    /\ partition = 0

\* C4 as stated, with the retry budget B = DefaultRetrySteps, the budget of
\* retry.RetryOnConflict: an Update is accepted only after fewer than B
\* Conflict answers, and B Conflict answers abort the rollout.
C4_Original ==
    /\ pc \in {"poll", "refresh", "probe"} => conflicts < DefaultRetrySteps
    /\ \A f \in failures :
          f.kind = "Conflict" => conflicts >= DefaultRetrySteps

\* C4 as amended: the first Update of an ordinal does not count against the
\* budget B of retry.RetryOnConflict.  After M <= B Conflict answers the
\* retry still has a step left, and an accepted Update is persisted with
\* cutoff p and followed by the verification poll; the rollout aborts for
\* Conflict only at the (B+1)-th Conflict answer, with a Conflict error, and
\* then checks no lower ordinal and polls nothing.
C4_ConflictRetryBudget ==
    /\ pc \in {"poll", "refresh", "probe"} =>
          /\ conflicts <= DefaultRetrySteps
          /\ Len(persisted) > 0
          /\ Last(persisted) = partition
          /\ store.partition = partition
          /\ partition \notin preOK
    /\ pc \in {"retry", "retryUpdate"} =>
          /\ conflicts \in 1..DefaultRetrySteps
          /\ stepsLeft = DefaultRetrySteps + 1 - conflicts
    /\ \A f \in failures :
          f.kind = "Conflict" =>
             /\ conflicts = DefaultRetrySteps + 1
             /\ pc = "done"
             /\ f.ord = partition
             /\ result.err.kind = "Conflict"
             /\ result.skip = FALSE
             /\ partition \notin polled
             /\ \A q \in 0..(partition - 1) : q \notin Range(preLog)

\* An Update accepted after exactly B Conflict answers.
C4_Witness ==
    /\ pc = "poll"
    /\ conflicts = DefaultRetrySteps
    /\ store.partition = partition
    /\ partition >= 1

\* C5: when the health probe fails after ordinal p was persisted and
\* verified, the rollout has returned that error and no lower ordinal has a
\* verification check, a readiness wait or an Update.
C5_ProbeFailureStopsRollout ==
    \A f \in failures :
       f.op = "probe" =>
          /\ pc = "done"
          /\ result.err.kind = "Probe"
          /\ stratResult.err = Err("Probe")
          /\ f.ord = partition
          /\ f.ord \in pollOK
          /\ f.ord \in Range(persisted)
          /\ \A q \in 0..(f.ord - 1) :
                q \notin Range(preLog) \cup waited \cup updIssued

\* The probe failed after ordinal 1, with ordinal 0 still to come.
C5_Witness ==
    \E f \in failures : f.op = "probe" /\ f.ord = 1

\* C6: when the readiness wait fails at ordinal p, the rollout has returned
\* an error, the store is as it was when the wait started, and no Update
\* with cutoff p or lower has been issued.
C6_WaitFailureBeforeMutation ==
    \A f \in failures :
       f.op = "wait" =>
          /\ pc = "done"
          /\ result.err.kind = "Readiness"
          /\ result.skip = FALSE
          /\ f.ord = partition
          /\ store = storeAtWait
          /\ \A c \in updIssued : c > f.ord

\* The wait failed at ordinal 1 after ordinal 2 had been updated.
C6_Witness ==
    /\ \E f \in failures : f.op = "wait" /\ f.ord = 1
    /\ 2 \in updIssued

\* What a verification failure that ends the poller leaves behind: the
\* rollout has returned that error, the ordinal was neither refreshed nor
\* probed, and no lower ordinal was checked.
VerificationAbort ==
    \A f \in failures :
       f.op = "poll" =>
          /\ pc = "done"
          /\ result.err.kind = "Verification"
          /\ f.ord = partition
          /\ elapsed > podUpdateTimeout
          /\ f.ord \notin pollOK \cup refetched \cup probed
          /\ \A q \in 0..(f.ord - 1) : q \notin Range(preLog)

\* C7 as stated: for every podUpdateTimeout, once the elapsed time is over
\* it the next step of the rollout (any step but the caller's Cancel) is a
\* call of the predicate that ends the poller (with success or with
\* the error), the error aborts the rollout at that ordinal, and the poller
\* always comes to an end.
C7_Original ==
    /\ [][(pc = "poll" /\ elapsed > podUpdateTimeout
              /\ cancelled' = cancelled) => pc' # "poll"]_vars
    /\ []VerificationAbort
    /\ (pc = "poll") ~> (pc # "poll")

\* C7 as amended: the same for every podUpdateTimeout other than 0, with
\* which the backoff never stops.  For those the poller always comes to an
\* end.
C7_PollerTimesOut ==
    /\ [][(pc = "poll" /\ podUpdateTimeout # 0
              /\ elapsed > podUpdateTimeout
              /\ cancelled' = cancelled) => pc' # "poll"]_vars
    /\ []VerificationAbort
    /\ (pc = "poll" /\ podUpdateTimeout # 0) ~> (pc # "poll")

\* The poller of ordinal 1 gave up with a timeout of MaxTimeout ticks.
C7_Witness ==
    /\ \E f \in failures : f.op = "poll" /\ f.ord = 1
    /\ podUpdateTimeout = MaxTimeout

\* C8: when the initial Get returns NotFound, the operation has returned
\* (false, a NotFound error wrapped with name and namespace); updateFunc
\* and the strategy were not called and no Update was issued.
C8_NotFoundReturnsAtOnce ==
    \A f \in failures :
       (f.op = "get" /\ f.kind = "NotFound") =>
          /\ pc = "done"
          /\ result = [skip |-> FALSE, set |-> TRUE,
                       err |-> [kind |-> "NotFound", ctx |-> {"identity"}]]
          /\ ~transformCalled
          /\ ~strategyCalled
          /\ ~stratResult.set
          /\ updIssued = {}
          /\ persisted = <<>>

\* The initial Get answered NotFound.
C8_Witness ==
    \E f \in failures : f.op = "get" /\ f.kind = "NotFound"

\* C9 as stated: a rollout that returns skipSleep = true has made no
\* readiness wait, no Update and no post-mutation poll.
C9_SkipSleepMeansNoWork ==
    (pc = "done" /\ result.skip = TRUE) =>
       /\ waited = {}
       /\ updIssued = {}
       /\ polled = {}

\* C10: no Update, readiness wait or health probe is made for an ordinal
\* whose pre-mutation check succeeds; and when the checks of all N >= 1
\* ordinals succeed the rollout issues no Update and returns (true, nil).
C10_ReinvocationIsSafe ==
    /\ \A k \in preOK : k \notin updIssued \cup waited \cup probed
    /\ (strategyCalled /\ replicas >= 1 /\ preOK = Ordinals
          /\ pc \notin {"loop"}) =>
          /\ pc = "done"
          /\ updIssued = {}
          /\ persisted = <<>>
          /\ failures = {}
          /\ result = [skip |-> TRUE, err |-> NilErr, set |-> TRUE]

\* A rollout over three replicas that found every ordinal verified.
C10_Witness ==
    /\ pc = "done"
    /\ replicas = 3
    /\ preOK = {0, 1, 2}

\* A resumed rollout: ordinal 2 was found verified, ordinals 1 and 0 were
\* updated, and the rollout returned.
C10_ResumeWitness ==
    /\ pc = "done"
    /\ preOK = {2}
    /\ persisted = <<1, 0>>

\* C11: a failure other than Conflict of a store Update, or of the Get in
\* the conflict-retry loop, ends the rollout at once, whatever is left of
\* the retry budget: the rollout has returned that error, classified as it
\* was, nothing was persisted or polled for that ordinal, and no lower
\* ordinal was checked.
C11_NonConflictShortCircuits ==
    \A f \in failures :
       (f.op \in {"update", "retryGet", "retryUpdate"}
          /\ f.kind # "Conflict") =>
          /\ pc = "done"
          /\ f.ord = partition
          /\ stratResult.err = handleStsError(Err(f.kind))
          /\ result.err.kind = f.kind
          /\ result.skip = FALSE
          /\ conflicts <= DefaultRetrySteps
          /\ f.op = "update" => conflicts = 0
          /\ partition \notin Range(persisted) \cup polled
          /\ \A q \in 0..(partition - 1) : q \notin Range(preLog)

\* After one Conflict, the Get of the first run of the retry closure failed
\* with a StatusError, with no step of the retry budget used up, at an
\* ordinal that has lower ordinals below it.
C11_Witness ==
    /\ \E f \in failures : f.op = "retryGet" /\ f.kind = "Status"
    /\ stepsLeft = DefaultRetrySteps
    /\ conflicts = 1
    /\ partition >= 1

\* C12 as stated: the hint the caller receives equals the hint the
\* strategy returned, in every outcome, also when the strategy returns an
\* error; after a failed health probe the strategy returned the skipSleep
\* it had computed, together with the error.
C12_HintReturnedVerbatim ==
    /\ stratResult.set =>
          /\ result.set
          /\ result.skip = stratResult.skip
    /\ \A f \in failures :
          f.op = "probe" =>
             /\ stratResult = [skip |-> skipSleep, err |-> Err("Probe"),
                               set |-> TRUE]
             /\ result.skip = skipSleep
             /\ result.err.kind = "Probe"

\* C13: with N = 0 the strategy makes no call of the predicate, of the
\* readiness wait, of the store or of the health probe, and returns
\* (false, nil) from the loop head.
C13_ZeroReplicas ==
    (replicas = 0 /\ strategyCalled) =>
       /\ pc \in {"loop", "done"}
       /\ partition = -1
       /\ preLog = <<>>
       /\ waited = {}
       /\ updCount = 0
       /\ polled = {}
       /\ refetched = {}
       /\ probed = {}
       /\ failures = {}
       /\ pc = "done" =>
             /\ stratResult = [skip |-> FALSE, err |-> NilErr, set |-> TRUE]
             /\ result = [skip |-> FALSE, err |-> NilErr, set |-> TRUE]

\* The strategy returned for a StatefulSet of no replicas.
C13_Witness ==
    /\ replicas = 0
    /\ strategyCalled
    /\ pc = "done"

\* C14: an accepted Update is followed by the successful poll of the same
\* ordinal before the next Update; and a rollout in which every
\* pre-mutation check failed, no Update was answered with Conflict and
\* nothing failed has sent the Updates N-1, N-2, ..., 0 in that order, each
\* accepted and verified, and returns (false, nil).
C14_ScenarioA ==
    /\ \A i \in 1..Len(persisted) :
          \/ persisted[i] \in pollOK
          \/ i = Len(persisted) /\ pc \in {"poll", "done"}
    /\ (strategyCalled /\ Succeeded /\ preOK = {}
          /\ updCount = Len(persisted)) =>
          /\ Len(persisted) = replicas
          /\ \A i \in 1..replicas : persisted[i] = replicas - i
          /\ updLog = persisted
          /\ pollOK = Ordinals
          /\ probed = Ordinals
          /\ result = [skip |-> FALSE, err |-> NilErr, set |-> TRUE]

\* Scenario A: three replicas, Updates 2, 1, 0, no Conflict.
C14_Witness ==
    /\ pc = "done"
    /\ Succeeded
    /\ persisted = <<2, 1, 0>>
    /\ updCount = 3
    /\ preOK = {}

\* C15 as stated: once the context is cancelled, the next call of the
\* predicate by the poller ends the backoff loop.
C15_CancelStopsPoller ==
    [][(pc = "poll" /\ cancelled) => pc' # "poll"]_vars

\* C16 as stated: every error the top-level operation returns has been
\* wrapped with the name and the namespace of the resource.
C16_EveryErrorHasIdentity ==
    (pc = "done" /\ result.err.kind # "nil") => "identity" \in result.err.ctx

\* C17 as stated: after any Update the store accepted, the stored resource
\* has the specification computed by updateFunc.
C17_PersistedHasUpdateSpec ==
    persisted # <<>> => store.spec = "new"

StrictlyDecreasing(q) ==
    \A i, j \in 1..Len(q) : i < j => q[i] > q[j]

\* C18: the cutoffs sent to the store, a run of attempts with one cutoff
\* taken once, are strictly decreasing, and so are the cutoffs the store
\* accepted; they are ordinals the loop has reached; and an attempt repeats
\* the cutoff of the attempt before it only as a step of the conflict retry
\* of the same iteration.
C18_CutoffsDecrease ==
    /\ [](/\ StrictlyDecreasing(updLog)
          /\ StrictlyDecreasing(persisted)
          /\ Range(persisted) \subseteq Range(updLog)
          /\ Range(updLog) = updIssued
          /\ strategyCalled =>
                \A c \in updIssued : c >= partition /\ c <= replicas - 1)
    /\ [][(updCount' # updCount /\ updLog' = updLog) =>
             (pc = "retryUpdate" /\ partition' = partition
                /\ Last(updLog) = partition)]_vars

\* Ordinal 2 was written three times (two Conflicts), then ordinal 1 once
\* and ordinal 0 twice.
C18_Witness ==
    /\ updLog = <<2, 1, 0>>
    /\ persisted = <<2, 1>>
    /\ updCount = 6
    /\ pc = "retryUpdate"

\* C19 as stated: a rollout that returns without error has persisted the
\* cutoffs N-1, N-2, ..., 0, one per loop iteration, the last being 0.
C19_Original ==
    (strategyCalled /\ Succeeded) =>
       /\ Len(persisted) = replicas
       /\ \A i \in 1..Len(persisted) : persisted[i] = replicas - i

\* C19 as amended: a rollout that returns without error has persisted, in
\* descending order and once each, exactly the ordinals whose pre-mutation
\* check failed; an iteration whose check succeeded persisted nothing; the
\* cutoff last written, the one the store holds, is the lowest ordinal
\* whose check failed.
C19_PersistedAreTheUnverified ==
    (strategyCalled /\ Succeeded) =>
       /\ Range(persisted) = Ordinals \ preOK
       /\ StrictlyDecreasing(persisted)
       /\ Len(persisted) = replicas - Cardinality(preOK)
       /\ persisted # <<>> =>
             /\ store.partition = Last(persisted)
             /\ \A q \in Ordinals \ preOK : Last(persisted) <= q

\* Three replicas, ordinals 2 and 0 already verified: only cutoff 1 is
\* written.
C19_Witness ==
    /\ pc = "done"
    /\ Succeeded
    /\ preOK = {2, 0}
    /\ persisted = <<1>>

\* What holds of the counters in every state: the loop counter stays in
\* -1..N-1 and is -1 when the rollout returns nil, at most N iterations
\* are started, and at most N * (1 + DefaultRetrySteps) Updates are sent.
CountersBounded ==
    /\ strategyCalled =>
          /\ partition \in (-1)..(replicas - 1)
          /\ Succeeded => partition = -1
    /\ Len(preLog) <= replicas
    /\ updCount <= replicas * (1 + DefaultRetrySteps)
    /\ updCount <= Len(preLog) * (1 + DefaultRetrySteps)

\* C20 as stated: for every N, as long as every collaborator call returns,
\* the rollout comes to an end, within the bounds on its counters.
C20_Original ==
    /\ <>(pc = "done")
    /\ []CountersBounded

\* C20 as amended: the same for every podUpdateTimeout other than 0.
C20_Terminates ==
    /\ (podUpdateTimeout # 0) ~> (pc = "done")
    /\ []CountersBounded

\* A rollout over three replicas that used the whole budget of Updates on
\* the way: six attempts for each of ordinals 2 and 1.
C20_Witness ==
    /\ replicas = 3
    /\ podUpdateTimeout # 0
    /\ updCount = 2 * (1 + DefaultRetrySteps)
    /\ partition = 0
    /\ pc = "loop"
====
